---- MODULE Spec2Model ----
(***************************************************************************)
(* Model of static/js/calendar.js: the event store (allEventos), the       *)
(* selected filter (currentFilter), the two rendered regions               *)
(* (#calendars-container, #eventos-container), the site-info fields, and   *)
(* the loads started by DOMContentLoaded and by setInterval(loadData,5000).*)
(*                                                                         *)
(* Strings the code takes apart or builds (dates, month names, numbers     *)
(* turned into text) are sequences of one-character strings; strings the   *)
(* code only copies or compares as a whole (titulo, categoria, hora,       *)
(* local, colours, class names) are TLA+ strings.  "" stands for every     *)
(* falsy value of an optional field (undefined, null, "").                 *)
(*                                                                         *)
(* The page is taken to be served with both containers empty and with the  *)
(* "Todas" button active, the first timer tick to come after               *)
(* DOMContentLoaded, event dates to be valid "YYYY-MM-DD" strings, and the *)
(* pt-BR locale data to be present.                                        *)
(***************************************************************************)
EXTENDS Integers, Sequences, FiniteSets, TLC

VARIABLES
    allEventos,     \* calendar.js:1   the event store
    currentFilter,  \* calendar.js:2   the selected filter
    active,         \* data-filter values of the .filter-btn carrying class "active"
    gridView,       \* children of #calendars-container
    listView,       \* children of #eventos-container
    localInfo,      \* #local-info textContent
    contactInfo,    \* #contact-info textContent
    logoSrc,        \* .logo src
    ready,          \* DOMContentLoaded has run
    inflight,       \* the loadData calls suspended at await fetch, oldest first
    tz,             \* the browser's offset from UTC, in hours
    last,           \* what the last handler to run did
    ret             \* the value returned by the last direct call of a function

vars == <<allEventos, currentFilter, active, gridView, listView, localInfo,
          contactInfo, logoSrc, ready, inflight, tz, last, ret>>

----------------------------------------------------------------------------
(* Bounds of the model.                                                    *)

MaxInFlight == 2
MaxLen == 3

----------------------------------------------------------------------------
(* Text.                                                                   *)

Digits == <<"0", "1", "2", "3", "4", "5", "6", "7", "8", "9">>

DigitVal(c) == (CHOOSE i \in 1..Len(Digits) : Digits[i] = c) - 1

RECURSIVE ToNumber(_)
ToNumber(s) ==
    IF s = <<>> THEN 0
    ELSE 10 * ToNumber(SubSeq(s, 1, Len(s) - 1)) + DigitVal(s[Len(s)])

\* String(n) for an integer n >= 0
RECURSIVE String(_)
String(n) ==
    IF n < 10 THEN <<Digits[n + 1]>>
    ELSE String(n \div 10) \o <<Digits[(n % 10) + 1]>>

\* s.padStart(len, pad) for a one-character pad
RECURSIVE padStart(_, _, _)
padStart(s, len, pad) ==
    IF Len(s) >= len THEN s ELSE padStart(<<pad>> \o s, len, pad)

\* s.charAt(0).toUpperCase() + s.slice(1), over the letters month names start with
toUpperCase(c) ==
    CASE c = "j" -> "J" [] c = "f" -> "F" [] c = "m" -> "M" [] c = "a" -> "A"
      [] c = "s" -> "S" [] c = "o" -> "O" [] c = "n" -> "N" [] c = "d" -> "D"
      [] OTHER -> c

Capitalize(s) == IF s = <<>> THEN s ELSE <<toUpperCase(s[1])>> \o Tail(s)

\* arr.indexOf(x), 0-based, -1 when absent
indexOf(arr, x) ==
    IF \E i \in 1..Len(arr) : arr[i] = x
    THEN (CHOOSE i \in 1..Len(arr) :
            arr[i] = x /\ \A j \in 1..(i - 1) : arr[j] # x) - 1
    ELSE -1

----------------------------------------------------------------------------
(* Dates.  A Date is the UTC calendar day and hour it denotes; its local   *)
(* fields are those of the instant shifted by the browser's offset.        *)

IsLeap(y) == (y % 4 = 0 /\ y % 100 # 0) \/ y % 400 = 0

DaysIn(y, m) ==
    CASE m \in {4, 6, 9, 11} -> 30
      [] m = 2 -> IF IsLeap(y) THEN 29 ELSE 28
      [] OTHER -> 31

PrevDay(dt) ==
    IF dt.d > 1 THEN [dt EXCEPT !.d = dt.d - 1]
    ELSE IF dt.m > 1 THEN [dt EXCEPT !.m = dt.m - 1, !.d = DaysIn(dt.y, dt.m - 1)]
    ELSE [dt EXCEPT !.y = dt.y - 1, !.m = 12, !.d = 31]

NextDay(dt) ==
    IF dt.d < DaysIn(dt.y, dt.m) THEN [dt EXCEPT !.d = dt.d + 1]
    ELSE IF dt.m < 12 THEN [dt EXCEPT !.m = dt.m + 1, !.d = 1]
    ELSE [dt EXCEPT !.y = dt.y + 1, !.m = 1, !.d = 1]

\* new Date("YYYY-MM-DD"): a date-only ISO string is midnight UTC
NewDateISO(s) ==
    [y |-> ToNumber(SubSeq(s, 1, 4)),
     m |-> ToNumber(SubSeq(s, 6, 7)),
     d |-> ToNumber(SubSeq(s, 9, 10)),
     h |-> 0]

\* the local calendar fields of a Date, in a browser off hours from UTC
Local(dt, off) ==
    LET h == dt.h + off
    IN  IF h < 0 THEN [PrevDay(dt) EXCEPT !.h = h + 24]
        ELSE IF h >= 24 THEN [NextDay(dt) EXCEPT !.h = h - 24]
        ELSE [dt EXCEPT !.h = h]

getFullYear(dt, off) == Local(dt, off).y
getMonth(dt, off) == Local(dt, off).m - 1
getDate(dt, off) == Local(dt, off).d

\* new Date(year, monthIndex, day): local fields, with day 0 the last day of the month before
NewDateLocal(year, monthIndex, day) ==
    LET y == year + (monthIndex \div 12)
        m == (monthIndex % 12) + 1
    IN  IF day = 0 THEN PrevDay([y |-> y, m |-> m, d |-> 1, h |-> 0])
        ELSE [y |-> y, m |-> m, d |-> day, h |-> 0]

MonthOffsets == <<0, 3, 2, 5, 0, 3, 5, 1, 4, 6, 2, 4>>

\* getDay() of a local date: 0 is Sunday
getDay(dt) ==
    LET y == IF dt.m < 3 THEN dt.y - 1 ELSE dt.y
    IN  (y + (y \div 4) - (y \div 100) + (y \div 400) + MonthOffsets[dt.m] + dt.d) % 7

\* pt-BR long month names, as toLocaleString('pt-BR', {month: 'long'}) gives them
MonthLong ==
    << <<"j","a","n","e","i","r","o">>,
       <<"f","e","v","e","r","e","i","r","o">>,
       <<"m","a","r","ç","o">>,
       <<"a","b","r","i","l">>,
       <<"m","a","i","o">>,
       <<"j","u","n","h","o">>,
       <<"j","u","l","h","o">>,
       <<"a","g","o","s","t","o">>,
       <<"s","e","t","e","m","b","r","o">>,
       <<"o","u","t","u","b","r","o">>,
       <<"n","o","v","e","m","b","r","o">>,
       <<"d","e","z","e","m","b","r","o">> >>

\* date.toLocaleString('pt-BR', {month: 'long'})
toLocaleMonth(dt, off) == MonthLong[getMonth(dt, off) + 1]

\* date.toLocaleString('pt-BR', {month: 'long', year: 'numeric'}) of a local date
toLocaleMonthYear(dt) == MonthLong[dt.m] \o <<" ", "d", "e", " ">> \o String(dt.y)

----------------------------------------------------------------------------
(* Values of allEventos.  data.eventos || [] is an array of event records  *)
(* when the body has the documented shape; any other truthy value (a       *)
(* number, an object, a string) is stored as it is, and every array        *)
(* method then called on it raises a TypeError.                            *)

Arr(s) == [kind |-> "array", items |-> s]
NotArray == [kind |-> "other", items |-> <<>>]
TypeError == [kind |-> "TypeError", items |-> <<>>]

\* calendar.js:4-11
categoryColors ==
    ("Estadual" :> "#1e3a52") @@ ("Ritualística" :> "#4a7c59") @@
    ("Entretenimento" :> "#d4a574") @@ ("Pública" :> "#4a9b8e") @@
    ("Feriado" :> "#e74c3c") @@ ("Sem Atividade" :> "#2c3e50")

\* calendar.js:13-20
categoryCssClasses ==
    ("Estadual" :> "estadual") @@ ("Ritualística" :> "ritualistica") @@
    ("Entretenimento" :> "entretenimento") @@ ("Pública" :> "publica") @@
    ("Feriado" :> "feriado") @@ ("Sem Atividade" :> "sematividade")

\* categoryColors[c] || categoryColors['Sem Atividade']
ColorOf_sematividade(c) ==
    IF c \in DOMAIN categoryColors THEN categoryColors[c] ELSE categoryColors["Sem Atividade"]

\* categoryColors[c] || '#999'
ColorOf(c) == IF c \in DOMAIN categoryColors THEN categoryColors[c] ELSE "#999"

\* categoryCssClasses[c] || 'sematividade'
CssClassOf(c) ==
    IF c \in DOMAIN categoryCssClasses THEN categoryCssClasses[c] ELSE "sematividade"

\* x || dflt for an optional text field
OrElse(x, dflt) == IF x = "" THEN dflt ELSE x

----------------------------------------------------------------------------
(* getFilteredEventos, calendar.js:68-73                                   *)

\* the text of a category in lower case, over the categories that differ in case
toLowerCase(c) == IF c = "Feriado" THEN "feriado" ELSE c

\* e.categoria.toLowerCase() === currentFilter.toLowerCase()
RECURSIVE ArrayFilterCategoria_nocase(_, _)
ArrayFilterCategoria_nocase(s, f) ==
    IF s = <<>> THEN <<>>
    ELSE (IF toLowerCase(Head(s).categoria) = toLowerCase(f) THEN <<Head(s)>> ELSE <<>>)
            \o ArrayFilterCategoria_nocase(Tail(s), f)

\* allEventos.filter(e => e.categoria === currentFilter), calendar.js:72
RECURSIVE ArrayFilterCategoria(_, _)
ArrayFilterCategoria(s, f) ==
    IF s = <<>> THEN <<>>
    ELSE (IF Head(s).categoria = f THEN <<Head(s)>> ELSE <<>>)
            \o ArrayFilterCategoria(Tail(s), f)

getFilteredEventos(all, filter) ==
    IF filter = "Todas" THEN all
    ELSE IF all.kind = "array" THEN Arr(ArrayFilterCategoria(all.items, filter))
    ELSE TypeError

----------------------------------------------------------------------------
(* groupEventosByMonth, calendar.js:141-156: an object whose keys are kept *)
(* in insertion order, as a sequence of [key, eventos] entries.            *)

monthNameOf(evento, off) == Capitalize(toLocaleMonth(NewDateISO(evento.data), off))

HasKey(grouped, k) == \E i \in 1..Len(grouped) : grouped[i].key = k

\* grouped[monthName].unshift(evento)
PushTo_unshift(grouped, k, evento) ==
    [i \in 1..Len(grouped) |->
        IF grouped[i].key = k
        THEN [grouped[i] EXCEPT !.eventos = <<evento>> \o grouped[i].eventos]
        ELSE grouped[i]]

\* grouped[monthName].push(evento), calendar.js:152
PushTo(grouped, k, evento) ==
    [i \in 1..Len(grouped) |->
        IF grouped[i].key = k
        THEN [grouped[i] EXCEPT !.eventos = Append(grouped[i].eventos, evento)]
        ELSE grouped[i]]

RECURSIVE GroupFrom(_, _, _)
GroupFrom(grouped, eventos, off) ==
    IF eventos = <<>> THEN grouped
    ELSE LET evento == Head(eventos)
             monthName == monthNameOf(evento, off)
             g == IF ~HasKey(grouped, monthName)
                  THEN Append(grouped, [key |-> monthName, eventos |-> <<>>])
                  ELSE grouped
         IN  GroupFrom(PushTo(g, monthName, evento), Tail(eventos), off)

groupEventosByMonth(eventos, off) == GroupFrom(<<>>, eventos, off)

----------------------------------------------------------------------------
(* renderEventsList, calendar.js:75-139                                    *)

\* calendar.js:83
meses ==
    << <<"J","a","n","e","i","r","o">>,
       <<"F","e","v","e","r","e","i","r","o">>,
       <<"M","a","r","ç","o">>,
       <<"A","b","r","i","l">>,
       <<"M","a","i","o">>,
       <<"J","u","n","h","o">>,
       <<"J","u","l","h","o">>,
       <<"A","g","o","s","t","o">>,
       <<"S","e","t","e","m","b","r","o">>,
       <<"O","u","t","u","b","r","o">>,
       <<"N","o","v","e","m","b","r","o">>,
       <<"D","e","z","e","m","b","r","o">> >>

\* the comparator of calendar.js:84
MesesCompare(a, b) == indexOf(meses, a) - indexOf(meses, b)

\* Array.prototype.sort is stable: insert each key after the keys not greater than it
RECURSIVE InsertKey(_, _)
InsertKey(sorted, k) ==
    IF sorted = <<>> THEN <<k>>
    ELSE IF MesesCompare(k, Head(sorted)) < 0 THEN <<k>> \o sorted
    ELSE <<Head(sorted)>> \o InsertKey(Tail(sorted), k)

RECURSIVE SortKeys(_)
SortKeys(keys) ==
    IF keys = <<>> THEN <<>>
    ELSE InsertKey(SortKeys(SubSeq(keys, 1, Len(keys) - 1)), keys[Len(keys)])

\* one .event-item, calendar.js:95-135
EventItem(evento, off) ==
    [className |-> "event-item",
     dateBox   |-> [className       |-> "event-date-box",
                    textContent     |-> String(getDate(NewDateISO(evento.data), off)),
                    backgroundColor |-> ColorOf(evento.categoria)],
     title     |-> evento.titulo,
     category  |-> evento.categoria,
     time      |-> OrElse(evento.hora, "Horário não definido"),
     location  |-> OrElse(evento.local, "Local não definido")]

\* one .month-group, calendar.js:86-138
MonthGroup(grouped, month, off) ==
    LET entry == grouped[CHOOSE i \in 1..Len(grouped) : grouped[i].key = month]
    IN  [className |-> "month-group",
         title     |-> month,
         items     |-> [i \in 1..Len(entry.eventos) |-> EventItem(entry.eventos[i], off)]]

\* the children of #eventos-container after renderEventsList(): the container is
\* emptied first, so a TypeError raised on a store that is no array leaves it empty
renderEventsList(all, filter, off) ==
    LET filtered == getFilteredEventos(all, filter)
    IN  IF filtered.kind # "array" THEN <<>>
        ELSE LET grouped == groupEventosByMonth(filtered.items, off)
                 monthKeys == SortKeys([i \in 1..Len(grouped) |-> grouped[i].key])
             IN  [i \in 1..Len(monthKeys) |-> MonthGroup(grouped, monthKeys[i], off)]

----------------------------------------------------------------------------
(* getMonthsWithEvents, calendar.js:230-246                                *)

\* JSON.stringify({ year, month })
JSONstringify(year, month) ==
    <<"{\"year\":">> \o String(year) \o <<",\"month\":">> \o String(month) \o <<"}">>

\* JSON.parse of such a text
JSONparse(m) ==
    LET k == CHOOSE i \in 1..Len(m) : m[i] = ",\"month\":"
    IN  [year  |-> ToNumber(SubSeq(m, 2, k - 1)),
         month |-> ToNumber(SubSeq(m, k + 1, Len(m) - 1))]

\* the key the forEach of calendar.js:233-238 adds for one event
MonthKeyOf(evento, off) ==
    LET date == NewDateISO(evento.data)
        year == getFullYear(date, off)
        month == getMonth(date, off) + 1
    IN  JSONstringify(year, month)

\* a Set keeps its members in insertion order, each once
RECURSIVE SetFrom(_, _, _)
SetFrom(months, eventos, off) ==
    IF eventos = <<>> THEN months
    ELSE LET k == MonthKeyOf(Head(eventos), off)
         IN  SetFrom(IF \E i \in 1..Len(months) : months[i] = k
                     THEN months ELSE Append(months, k),
                     Tail(eventos), off)

\* the comparator of calendar.js:242-245
MonthsCompare(a, b) == IF a.year # b.year THEN a.year - b.year ELSE a.month - b.month

RECURSIVE InsertMonth(_, _)
InsertMonth(sorted, x) ==
    IF sorted = <<>> THEN <<x>>
    ELSE IF MonthsCompare(x, Head(sorted)) < 0 THEN <<x>> \o sorted
    ELSE <<Head(sorted)>> \o InsertMonth(Tail(sorted), x)

RECURSIVE SortMonths(_)
SortMonths(ms) ==
    IF ms = <<>> THEN <<>>
    ELSE InsertMonth(SortMonths(SubSeq(ms, 1, Len(ms) - 1)), ms[Len(ms)])

\* over the items of an array store
getMonthsWithEvents(eventos, off) ==
    LET months == SetFrom(<<>>, eventos, off)
    IN  SortMonths([i \in 1..Len(months) |-> JSONparse(months[i])])

----------------------------------------------------------------------------
(* renderCalendars, calendar.js:158-228                                    *)

\* calendar.js:179
dayHeaders ==
    << <<"D","o","m">>, <<"S","e","g">>, <<"T","e","r">>, <<"Q","u","a">>,
       <<"Q","u","i">>, <<"S","e","x">>, <<"S","á","b">> >>

Cell(classes, text) ==
    [classList |-> classes, textContent |-> text, backgroundColor |-> "",
     tooltip |-> <<>>, title |-> <<>>]

\* calendar.js:204
DateStr(year, month, day) ==
    String(year) \o <<"-">> \o padStart(String(month), 2, "0")
                 \o <<"-">> \o padStart(String(day), 2, "0")

\* allEventos.filter(e => e.data === dateStr), calendar.js:205
RECURSIVE ArrayFilterData(_, _)
ArrayFilterData(s, dateStr) ==
    IF s = <<>> THEN <<>>
    ELSE (IF Head(s).data = dateStr THEN <<Head(s)>> ELSE <<>>)
            \o ArrayFilterData(Tail(s), dateStr)

\* which of the events of a day annotates its cell, calendar.js:208
PickEvento(eventosDoDay) == eventosDoDay[1]

\* one day cell, calendar.js:199-223
DayCell(eventos, year, month, day) ==
    LET dateStr == DateStr(year, month, day)
        eventosDoDay == ArrayFilterData(eventos, dateStr)
    IN  IF Len(eventosDoDay) > 0
        THEN LET evento == PickEvento(eventosDoDay)
                 categoria == evento.categoria
                 horaText == IF evento.hora # "" THEN <<"U+23F0 ", evento.hora>> ELSE <<>>
                 localText == IF evento.local # "" THEN <<"U+1F4CD ", evento.local>> ELSE <<>>
             IN  [classList       |-> {"day-cell", "has-event", CssClassOf(categoria)},
                  textContent     |-> String(day),
                  backgroundColor |-> ColorOf(categoria),
                  tooltip         |-> << <<evento.titulo>>, horaText, localText >>,
                  title           |-> <<evento.titulo, " - ", OrElse(evento.hora, "S/ hora"),
                                        " - ", OrElse(evento.local, "S/ local")>>]
        ELSE Cell({"day-cell"}, String(day))

\* one .calendar block, calendar.js:164-227
Calendar(eventos, year, month) ==
    LET monthName == toLocaleMonthYear(NewDateLocal(year, month - 1, 1))
        firstDay == getDay(NewDateLocal(year, month - 1, 1))
        daysInMonth == NewDateLocal(year, month, 0).d
    IN  [className |-> "calendar",
         title     |-> Capitalize(monthName),
         grid      |-> [i \in 1..Len(dayHeaders) |-> Cell({"day-header"}, dayHeaders[i])]
                       \o [i \in 1..firstDay |-> Cell({"day-cell", "empty"}, <<>>)]
                       \o [day \in 1..daysInMonth |-> DayCell(eventos, year, month, day)]]

\* the children of #calendars-container after renderCalendars(): the container is
\* emptied first, so the TypeError of allEventos.forEach leaves it empty
renderCalendars(all, off) ==
    IF all.kind # "array" THEN <<>>
    ELSE LET months == getMonthsWithEvents(all.items, off)
         IN  [i \in 1..Len(months) |-> Calendar(all.items, months[i].year, months[i].month)]

----------------------------------------------------------------------------
(* The inputs: response bodies of GET /api/data, the filter buttons of the *)
(* page, the browser's time zone.                                          *)

Evento(data, titulo, categoria, hora, local) ==
    [data |-> data, titulo |-> titulo, categoria |-> categoria,
     hora |-> hora, local |-> local]

EventoPool ==
    << Evento(<<"2","0","2","6","-","0","3","-","1","5">>, "Festa", "Feriado", "", ""),
       Evento(<<"2","0","2","6","-","0","3","-","1","5">>, "Sessão", "Estadual", "20:00", "Templo"),
       Evento(<<"2","0","2","4","-","0","1","-","0","1">>, "Baile", "Desconhecida", "", "Salão"),
       Evento(<<"2","0","2","5","-","0","3","-","1","0">>, "Ensaio", "feriado", "19:00", "") >>

\* the arrays of at most n events of the pool
RECURSIVE ArraysUpTo(_)
ArraysUpTo(n) ==
    IF n = 0 THEN {<<>>}
    ELSE LET shorter == ArraysUpTo(n - 1)
         IN  shorter \cup {Append(s, EventoPool[i]) : s \in shorter, i \in 1..Len(EventoPool)}

\* data.eventos: missing (or null, or any falsy value), an array, or another truthy value
Absent == [kind |-> "absent", items |-> <<>>]

\* what the polled backend serves from one refresh to the next
ResponseEventos ==
    { Absent, NotArray, Arr(<<>>), Arr(<<EventoPool[1]>>),
      Arr(<<EventoPool[1], EventoPool[2]>>) }

Config(present, local, contact, logo) ==
    [present |-> present, local |-> local, contact |-> contact, logo |-> logo]

NoConfig == Config(FALSE, "", "", "")

\* data.config: missing, or an object whose fields are each a text or falsy ("")
ResponseConfigs ==
    { NoConfig,
      Config(TRUE, "", "", ""),
      Config(TRUE, "Sede", "", ""),
      Config(TRUE, "", "Secretaria", "/logo.png") }

Body(eventos, config) == [eventos |-> eventos, config |-> config]

\* the response bodies of the refresh model: every eventos value without a config,
\* and every config beside one array of events
Bodies ==
    {Body(e, NoConfig) : e \in ResponseEventos}
    \cup {Body(Arr(<<EventoPool[1]>>), c) : c \in ResponseConfigs}

\* the response bodies of the model that remembers what each load started from
SnapBodies == {Body(e, NoConfig) : e \in {Absent, NotArray, Arr(<<EventoPool[1]>>)}}

\* how a load can fail before it has assigned anything
FailureCauses == {"fetch rejects", "body is not JSON", "body is null"}

\* btn.dataset.filter of the .filter-btn elements of the page
FilterValues == {"Todas", "Feriado", "Estadual"}

\* UTC-3 (Brasília) and UTC
Offsets == {-3, 0}

\* what the page's markup holds before any script has written to it
Markup == "(markup)"

----------------------------------------------------------------------------
(* The handlers.                                                           *)

NoCall == [fn |-> "none", arg |-> [eventos |-> <<>>, filter |-> ""], val |-> <<>>]

NoEntry == [snap |-> <<>>, superseded |-> FALSE]
NoData == Body(Absent, NoConfig)

\* what a handler did: which handler, for a load the call that completed, the body
\* it received, why it failed and whether the store already held what it assigned,
\* the regions it rebuilt (or began to rebuild), whether an exception left it uncaught
Did(op) ==
    [op |-> op, entry |-> NoEntry, data |-> NoData, cause |-> "", same |-> FALSE,
     rendered |-> {}, uncaught |-> FALSE]

\* calendar.js:1-2 and the page as served
Init ==
    /\ allEventos = Arr(<<>>)
    /\ currentFilter = "Todas"
    /\ active = {"Todas"}
    /\ gridView = <<>>
    /\ listView = <<>>
    /\ localInfo = Markup
    /\ contactInfo = Markup
    /\ logoSrc = Markup
    /\ ready = FALSE
    /\ inflight = <<>>
    /\ tz \in Offsets
    /\ last = Did("none")
    /\ ret = NoCall

\* loadData up to its first await (calendar.js:28-30): the request is sent.  The
\* entry tells whether a call started later has written the store since, and, when
\* keep is set, what the store and the views were when the call started.
StartLoad(keep) ==
    Append(inflight,
           [snap |-> IF keep THEN <<allEventos, listView, gridView>> ELSE <<>>,
            superseded |-> FALSE])

\* calendar.js:23-26
DOMContentLoaded(keep) ==
    /\ ~ready
    /\ ready' = TRUE
    /\ inflight' = StartLoad(keep)
    /\ last' = Did("DOMContentLoaded")
    /\ UNCHANGED <<allEventos, currentFilter, active, gridView, listView, localInfo,
                   contactInfo, logoSrc, tz, ret>>

\* calendar.js:249: a tick of setInterval(loadData, 5000)
Tick(keep) ==
    /\ ready
    /\ Len(inflight) < MaxInFlight
    /\ inflight' = StartLoad(keep)
    /\ last' = Did("tick")
    /\ UNCHANGED <<allEventos, currentFilter, active, gridView, listView, localInfo,
                   contactInfo, logoSrc, ready, tz, ret>>

Remove(s, i) == SubSeq(s, 1, i - 1) \o SubSeq(s, i + 1, Len(s))

\* the calls still in flight once call i has written the store: those started
\* before it have been overtaken
Overtake(s, i) ==
    [j \in 1..(Len(s) - 1) |->
        IF j < i THEN [s[j] EXCEPT !.superseded = TRUE] ELSE s[j + 1]]

\* the catch of calendar.js:51-53 clearing the store (it only logs)
loadDataFails_clears(i, cause) ==
    /\ i \in 1..Len(inflight)
    /\ inflight' = Remove(inflight, i)
    /\ allEventos' = Arr(<<>>)
    /\ last' = [Did("loadFailed") EXCEPT !.entry = inflight[i], !.cause = cause]
    /\ UNCHANGED <<currentFilter, active, gridView, listView, localInfo,
                   contactInfo, logoSrc, ready, tz, ret>>

\* calendar.js:30-31 and 51-53: fetch or response.json() rejects, or data is null
\* and data.eventos raises; the catch logs the error
loadDataFails(i, cause) ==
    /\ i \in 1..Len(inflight)
    /\ inflight' = Remove(inflight, i)
    /\ last' = [Did("loadFailed") EXCEPT !.entry = inflight[i], !.cause = cause]
    /\ UNCHANGED <<allEventos, currentFilter, active, gridView, listView, localInfo,
                   contactInfo, logoSrc, ready, tz, ret>>

\* allEventos = allEventos.concat(data.eventos || [])
StoreAfter_merge(old, data) ==
    IF data.eventos.kind = "other" THEN data.eventos
    ELSE Arr(old.items \o data.eventos.items)

\* calendar.js:33
StoreAfter(old, data) == IF data.eventos.kind = "absent" THEN Arr(<<>>) ELSE data.eventos

\* textContent = data.config.local, without the || fallback
LocalInfoAfter_nofallback(old, config) == IF config.present THEN config.local ELSE old

\* calendar.js:36-37
LocalInfoAfter(old, config) ==
    IF config.present THEN OrElse(config.local, "Rua José Pereira Liberato, 1178") ELSE old

\* calendar.js:36-38
ContactInfoAfter(old, config) ==
    IF config.present THEN OrElse(config.contact, "(47) 99286-0936 (Arthur Ayad)") ELSE old

\* calendar.js:36-47
LogoSrcAfter(old, config) ==
    IF config.present /\ config.logo # "" THEN config.logo ELSE old

\* currentFilter = 'Todas' on every load
FilterAfterLoad_reset(filter) == "Todas"

\* loadData never assigns currentFilter
FilterAfterLoad(filter) == filter

\* a load that drops the response of a call overtaken by a later one
loadDataResolves_sequenced(i, data) ==
    /\ i \in 1..Len(inflight)
    /\ IF inflight[i].superseded
       THEN /\ UNCHANGED <<allEventos, localInfo, contactInfo, logoSrc, currentFilter,
                           gridView, listView>>
            /\ last' = [Did("loadDone") EXCEPT !.entry = inflight[i], !.data = data]
       ELSE /\ allEventos' = StoreAfter(allEventos, data)
            /\ localInfo' = LocalInfoAfter(localInfo, data.config)
            /\ contactInfo' = ContactInfoAfter(contactInfo, data.config)
            /\ logoSrc' = LogoSrcAfter(logoSrc, data.config)
            /\ currentFilter' = currentFilter
            /\ gridView' = renderCalendars(allEventos', tz)
            /\ listView' = renderEventsList(allEventos', currentFilter', tz)
            /\ last' = [Did("loadDone") EXCEPT !.entry = inflight[i], !.data = data,
                                               !.rendered = {"calendars", "list"}]
    /\ inflight' = Overtake(inflight, i)
    /\ UNCHANGED <<active, ready, tz, ret>>

\* calendar.js:31-53: the response has arrived and data is an object
loadDataResolves(i, data) ==
    /\ i \in 1..Len(inflight)
    /\ allEventos' = StoreAfter(allEventos, data)
    /\ localInfo' = LocalInfoAfter(localInfo, data.config)
    /\ contactInfo' = ContactInfoAfter(contactInfo, data.config)
    /\ logoSrc' = LogoSrcAfter(logoSrc, data.config)
    /\ currentFilter' = FilterAfterLoad(currentFilter)
    /\ gridView' = renderCalendars(allEventos', tz)
    /\ IF allEventos'.kind = "array"
       THEN /\ listView' = renderEventsList(allEventos', currentFilter', tz)
            /\ last' = [Did("loadDone") EXCEPT !.entry = inflight[i], !.data = data,
                                               !.same = (allEventos' = allEventos),
                                               !.rendered = {"calendars", "list"}]
       ELSE \* renderCalendars raised: renderEventsList is not reached, the catch logs
            /\ listView' = listView
            /\ last' = [Did("loadFailed") EXCEPT !.entry = inflight[i], !.data = data,
                                                 !.cause = "TypeError",
                                                 !.rendered = {"calendars"}]
    /\ inflight' = Overtake(inflight, i)
    /\ UNCHANGED <<active, ready, tz, ret>>

\* a click that also rebuilds the grid, from the filtered events
Click_grid(f) ==
    /\ ready
    /\ active' = {f}
    /\ currentFilter' = f
    /\ listView' = renderEventsList(allEventos, currentFilter', tz)
    /\ gridView' = renderCalendars(getFilteredEventos(allEventos, currentFilter'), tz)
    /\ last' = [Did("click") EXCEPT !.cause = f, !.rendered = {"calendars", "list"},
                                    !.uncaught = (allEventos.kind # "array")]
    /\ UNCHANGED <<allEventos, localInfo, contactInfo, logoSrc, ready, inflight, tz, ret>>

\* calendar.js:59-64: a click on the .filter-btn whose data-filter is f.  On a store
\* that is no array renderEventsList raises out of the handler.
Click(f) ==
    /\ ready
    /\ active' = {f}
    /\ currentFilter' = f
    /\ listView' = renderEventsList(allEventos, currentFilter', tz)
    /\ last' = [Did("click") EXCEPT !.cause = f, !.rendered = {"list"},
                                    !.uncaught = (allEventos.kind # "array")]
    /\ UNCHANGED <<allEventos, gridView, localInfo, contactInfo, logoSrc, ready,
                   inflight, tz, ret>>

\* the page polling its backend
Next ==
    \/ DOMContentLoaded(FALSE)
    \/ Tick(FALSE)
    \/ \E i \in 1..MaxInFlight, cause \in FailureCauses : loadDataFails(i, cause)
    \/ \E i \in 1..MaxInFlight, data \in Bodies : loadDataResolves(i, data)
    \/ \E f \in FilterValues : Click(f)

Spec == Init /\ [][Next]_vars

\* the same page, each load remembering the store and the views it started from
NextSnap ==
    \/ DOMContentLoaded(TRUE)
    \/ Tick(TRUE)
    \/ \E i \in 1..MaxInFlight, cause \in FailureCauses : loadDataFails(i, cause)
    \/ \E i \in 1..MaxInFlight, data \in SnapBodies : loadDataResolves(i, data)
    \/ \E f \in {"Todas", "Estadual"} : Click(f)

SpecSnap == Init /\ [][NextSnap]_vars

----------------------------------------------------------------------------
(* The first load of the page, answered with any array of events of the    *)
(* pool, then clicks, and getFilteredEventos and groupEventosByMonth       *)
(* called as renderEventsList calls them.                                  *)

\* calendar.js:79
Call_getFilteredEventos ==
    /\ allEventos.kind = "array"
    /\ ret' = [fn |-> "getFilteredEventos",
               arg |-> [eventos |-> allEventos.items, filter |-> currentFilter],
               val |-> getFilteredEventos(allEventos, currentFilter).items]
    /\ UNCHANGED <<allEventos, currentFilter, active, gridView, listView, localInfo,
                   contactInfo, logoSrc, ready, inflight, tz, last>>

\* calendar.js:79-80
Call_groupEventosByMonth ==
    /\ allEventos.kind = "array"
    /\ LET filtered == getFilteredEventos(allEventos, currentFilter).items
       IN  ret' = [fn |-> "groupEventosByMonth",
                   arg |-> [eventos |-> filtered, filter |-> currentFilter],
                   val |-> groupEventosByMonth(filtered, tz)]
    /\ UNCHANGED <<allEventos, currentFilter, active, gridView, listView, localInfo,
                   contactInfo, logoSrc, ready, inflight, tz, last>>

NextLoad ==
    \/ DOMContentLoaded(FALSE)
    \/ \E s \in ArraysUpTo(MaxLen) : loadDataResolves(1, Body(Arr(s), NoConfig))
    \/ \E f \in FilterValues : Click(f)
    \/ Call_getFilteredEventos
    \/ Call_groupEventosByMonth

SpecLoad == Init /\ [][NextLoad]_vars

----------------------------------------------------------------------------
(* Properties.                                                             *)

\* the members of s at the positions of I, in the order of s
Pick(s, I) ==
    [k \in 1..Cardinality(I) |->
        s[CHOOSE i \in I : Cardinality({j \in I : j < i}) = k - 1]]

\* how many members of s equal x
Count(s, x) == Cardinality({i \in 1..Len(s) : s[i] = x})

\* C10: for every store and filter, getFilteredEventos returns exactly the stored
\* events whose categoria equals the filter, compared as whole strings, in their
\* stored order; under the filter "Todas" it returns the store itself.
C10_FilterExact ==
    ret.fn = "getFilteredEventos" =>
        LET eventos == ret.arg.eventos
            filter == ret.arg.filter
        IN  IF filter = "Todas" THEN ret.val = eventos
            ELSE ret.val = Pick(eventos, {i \in 1..Len(eventos) :
                                             eventos[i].categoria = filter})

\* a filter that drops an event whose categoria differs from it only in case and
\* an event of another category, and keeps the one behind them
C10_Witness ==
    /\ ret.fn = "getFilteredEventos"
    /\ ret.arg.filter = "Feriado"
    /\ Len(ret.arg.eventos) = 3
    /\ ret.arg.eventos[1].categoria = "feriado"
    /\ ret.arg.eventos[2].categoria = "Estadual"
    /\ ret.val = <<ret.arg.eventos[3]>>

\* C9: groupEventosByMonth partitions its input: no month twice, no empty group,
\* every event in as many groups' lists as the input holds it (and all in one
\* group), each group in the order of the input.
C9_GroupPartition ==
    ret.fn = "groupEventosByMonth" =>
        LET eventos == ret.arg.eventos
            grouped == ret.val
            G == 1..Len(grouped)
        IN  /\ \A g, h \in G : grouped[g].key = grouped[h].key => g = h
            /\ \A g \in G : grouped[g].eventos # <<>>
            /\ \A i \in 1..Len(eventos) :
                  \E g \in G :
                     /\ Count(grouped[g].eventos, eventos[i]) = Count(eventos, eventos[i])
                     /\ \A h \in G \ {g} : Count(grouped[h].eventos, eventos[i]) = 0
            /\ \A g \in G :
                  /\ \A k \in 1..Len(grouped[g].eventos) :
                        Count(eventos, grouped[g].eventos[k]) > 0
                  /\ \E I \in SUBSET (1..Len(eventos)) :
                        grouped[g].eventos = Pick(eventos, I)

\* two months, one of them holding two different events that the input separates
C9_Witness ==
    /\ ret.fn = "groupEventosByMonth"
    /\ Len(ret.arg.eventos) = 3
    /\ Len(ret.val) = 2
    /\ Len(ret.val[1].eventos) = 2
    /\ ret.val[1].eventos[1] # ret.val[1].eventos[2]
    /\ ret.val[1].eventos = <<ret.arg.eventos[1], ret.arg.eventos[3]>>

\* the year, month and day a date string "YYYY-MM-DD" names
YearOf(data) == ToNumber(SubSeq(data, 1, 4))
MonthOf(data) == ToNumber(SubSeq(data, 6, 7))
DayOf(data) == ToNumber(SubSeq(data, 9, 10))

\* the title of the calendar block of a year and month
BlockTitle(y, m) == Capitalize(MonthLong[m] \o <<" ", "d", "e", " ">> \o String(y))

\* the first stored event carrying a date string
FirstOn(eventos, data) ==
    eventos[CHOOSE j \in 1..Len(eventos) :
                /\ eventos[j].data = data
                /\ \A k \in 1..(j - 1) : eventos[k].data # data]

\* the store without the events that come after another event of the same date
FirstsOnly(eventos) ==
    Pick(eventos, {j \in 1..Len(eventos) :
                      \A k \in 1..(j - 1) : eventos[k].data # eventos[j].data})

\* a day cell showing day d and annotated from the event
AnnotatedFrom(cell, d, evento) ==
    /\ "day-cell" \in cell.classList
    /\ "empty" \notin cell.classList
    /\ cell.textContent = String(d)
    /\ "has-event" \in cell.classList
    /\ CssClassOf(evento.categoria) \in cell.classList
    /\ cell.backgroundColor = ColorOf(evento.categoria)
    /\ Len(cell.tooltip) > 0
    /\ cell.tooltip[1] = <<evento.titulo>>

\* C6: for every date string an event of the store carries, the grid view holds
\* the calendar block of that date's year and month, and in it the cell of that
\* day is annotated from the first stored event of exactly that date; the later
\* events of a date change nothing in the grid.
C6_GridShowsEveryDate ==
    allEventos.kind = "array" =>
        /\ \A i \in 1..Len(allEventos.items) :
              LET data == allEventos.items[i].data
                  first == FirstOn(allEventos.items, data)
              IN  \E b \in 1..Len(gridView) :
                     /\ gridView[b].title = BlockTitle(YearOf(data), MonthOf(data))
                     /\ \E c \in 1..Len(gridView[b].grid) :
                           AnnotatedFrom(gridView[b].grid[c], DayOf(data), first)
        /\ gridView = renderCalendars(Arr(FirstsOnly(allEventos.items)), tz)

\* the rows of the list view, over all its month groups
ListRows ==
    UNION {{listView[g].items[r] : r \in 1..Len(listView[g].items)} :
              g \in 1..Len(listView)}

\* the annotated day cells of the grid view, over all its blocks
AnnotatedCells ==
    UNION {{gridView[b].grid[c] : c \in {k \in 1..Len(gridView[b].grid) :
                                            "has-event" \in gridView[b].grid[k].classList}} :
              b \in 1..Len(gridView)}

\* the stored events whose categoria the styling tables do not list
Unstyled ==
    {allEventos.items[i] : i \in {k \in 1..Len(allEventos.items) :
                                     allEventos.items[k].categoria \notin DOMAIN categoryColors}}

\* the list row, the day cell rendered from an event
RowOf(row, evento) == row.title = evento.titulo /\ row.category = evento.categoria
CellOf(cell, evento) == cell.tooltip[1] = <<evento.titulo>>

\* C7 as stated: an event of an unlisted category carries the fallback colour and
\* the fallback CSS class in both views, on its list row and on its day cell.
C7_FallbackInBothViews ==
    \A evento \in Unstyled :
        /\ \A row \in ListRows :
              RowOf(row, evento) =>
                 /\ row.dateBox.backgroundColor = "#999"
                 /\ "sematividade" \in {row.className, row.dateBox.className}
        /\ \A cell \in AnnotatedCells :
              CellOf(cell, evento) =>
                 /\ cell.backgroundColor = "#999"
                 /\ "sematividade" \in cell.classList

\* C7, amended: an event of an unlisted category carries the fallback colour on the
\* date box of each of its list rows and on the day cell annotated from it, and the
\* fallback CSS class on that day cell only: a list row has the classes event-item
\* and event-date-box, whatever the category.
C7_FallbackColourBothClassGrid ==
    \A evento \in Unstyled :
        /\ \A row \in ListRows :
              RowOf(row, evento) =>
                 /\ row.dateBox.backgroundColor = "#999"
                 /\ row.className = "event-item"
                 /\ row.dateBox.className = "event-date-box"
        /\ \A cell \in AnnotatedCells :
              CellOf(cell, evento) =>
                 /\ cell.backgroundColor = "#999"
                 /\ cell.classList = {"day-cell", "has-event", "sematividade"}

\* an event of an unlisted category shown by a list row and by a day cell, beside
\* an event of a listed one
C7_Witness ==
    /\ \E evento \in Unstyled :
          /\ \E row \in ListRows : RowOf(row, evento)
          /\ \E cell \in AnnotatedCells : CellOf(cell, evento)
    /\ \E row \in ListRows : row.category \in DOMAIN categoryColors
    /\ \E cell \in AnnotatedCells : cell.backgroundColor # "#999"

\* the array a response body gives the store: data.eventos, or none when it is missing
Served(data) == IF data.eventos.kind = "absent" THEN Arr(<<>>) ELSE data.eventos

\* C3: after every load that completes successfully the store is the response's
\* array of events (the empty array when the body has none), nothing of the
\* former store in it, and both regions have been rebuilt from it, the list under
\* the selected filter, also when the store already held the same events.
C3_LoadReplaces ==
    last.op = "loadDone" =>
        /\ allEventos = Served(last.data)
        /\ last.rendered = {"calendars", "list"}
        /\ gridView = renderCalendars(Served(last.data), tz)
        /\ listView = renderEventsList(Served(last.data), currentFilter, tz)

\* a load that brought the events the store already held, under a filter that
\* hides one of them
C3_Witness ==
    /\ last.op = "loadDone"
    /\ last.same
    /\ Len(allEventos.items) = 2
    /\ currentFilter = "Estadual"
    /\ Cardinality(ListRows) = 1

\* C2: loads in flight together are neither ordered nor cancelled: a response
\* that arrives after the response of a call started later still replaces the
\* store and both views, and once no call is in flight the store and the views
\* hold the data of the response that arrived last.
C2_LastArrivalWins ==
    (last.op = "loadDone" /\ (last.entry.superseded \/ inflight = <<>>)) =>
        /\ allEventos = Served(last.data)
        /\ gridView = renderCalendars(allEventos, tz)
        /\ listView = renderEventsList(allEventos, currentFilter, tz)

\* the response of an earlier call has just replaced the different events that the
\* response of a later call had put on display, and no call is left in flight
C2_Witness ==
    /\ last.op = "loadDone"
    /\ last.entry.superseded
    /\ ~last.same
    /\ inflight = <<>>
    /\ allEventos.items # <<>>

\* C4: a click on a filter button stores the button's data-filter value and
\* rebuilds the list only, leaving the store and the grid as they were; and in
\* every state the grid is the rendering of the whole store, whatever the filter.
C4_FilterLeavesGrid ==
    /\ [](gridView = renderCalendars(allEventos, tz))
    /\ [](last.op = "click" =>
            /\ currentFilter = last.cause
            /\ active = {last.cause}
            /\ last.rendered = {"list"}
            /\ listView = renderEventsList(allEventos, currentFilter, tz))
    /\ [][last'.op = "click" => (allEventos' = allEventos /\ gridView' = gridView)]_vars

\* a click has left one row in the list while the grid still shows a day
\* annotated from an event the filter hides
C4_Witness ==
    /\ last.op = "click"
    /\ currentFilter = "Estadual"
    /\ Cardinality(ListRows) = 1
    /\ \E cell \in AnnotatedCells : cell.backgroundColor = categoryColors["Feriado"]

\* C5: only a click changes the selected filter: no tick and no load, completed
\* or failed, does; so the list a completed load rebuilds is filtered by the
\* filter selected before it.
C5_FilterPersists ==
    /\ [][currentFilter' # currentFilter => last'.op = "click"]_vars
    /\ [][last'.op \in {"DOMContentLoaded", "tick", "loadDone", "loadFailed"}
             => currentFilter' = currentFilter]_vars
    /\ [](last.op = "loadDone" =>
             listView = renderEventsList(allEventos, currentFilter, tz))

\* a load completed under a filter selected earlier, which hides one of its events
C5_Witness ==
    /\ last.op = "loadDone"
    /\ currentFilter = "Feriado"
    /\ Len(allEventos.items) = 2
    /\ Cardinality(ListRows) = 1

\* what a site-info element shows for a field of the response
Shows(shown, value, fallbacks) ==
    IF value # "" THEN shown = value ELSE shown \in fallbacks

\* C8 as stated: after a successful load each of the three site-info elements
\* shows the response's value when it is present and truthy, and its fallback
\* when it is missing or falsy (the text hardcoded in the script, or what the
\* page was served with; for the logo only the latter exists).
C8_EachFieldOrFallback ==
    last.op = "loadDone" =>
        /\ Shows(localInfo, last.data.config.local,
                 {"Rua José Pereira Liberato, 1178", Markup})
        /\ Shows(contactInfo, last.data.config.contact,
                 {"(47) 99286-0936 (Arthur Ayad)", Markup})
        /\ Shows(logoSrc, last.data.config.logo, {Markup})

\* C8, amended: a successful load whose body has a config object sets the location
\* and the contact text each to the response's value when truthy and to its
\* hardcoded fallback otherwise, and sets the logo to the response's logo when
\* truthy and otherwise leaves it as it was; a body without a config object leaves
\* all three as they were.
C8_ConfigUpdate ==
    [][last'.op = "loadDone" =>
         LET config == last'.data.config
         IN  IF config.present
             THEN /\ localInfo' = IF config.local # "" THEN config.local
                                  ELSE "Rua José Pereira Liberato, 1178"
                  /\ contactInfo' = IF config.contact # "" THEN config.contact
                                    ELSE "(47) 99286-0936 (Arthur Ayad)"
                  /\ logoSrc' = IF config.logo # "" THEN config.logo ELSE logoSrc
             ELSE /\ localInfo' = localInfo
                  /\ contactInfo' = contactInfo
                  /\ logoSrc' = logoSrc]_vars

\* a load whose config has neither location nor logo: the location shows its
\* fallback, the logo still the one an earlier response set
C8_Witness ==
    /\ last.op = "loadDone"
    /\ last.data.config.present
    /\ last.data.config.local = ""
    /\ last.data.config.logo = ""
    /\ localInfo = "Rua José Pereira Liberato, 1178"
    /\ logoSrc = "/logo.png"

\* C1 as stated: whenever a load fails, the store and both views are what they
\* were when that load started, and no exception leaves loadData.
C1_FailureRestoresStart ==
    last.op = "loadFailed" =>
        /\ <<allEventos, listView, gridView>> = last.entry.snap
        /\ ~last.uncaught

\* C1, amended: no exception leaves loadData.  A load that fails before it has
\* assigned the store (fetch rejects, the body is not JSON, data is null) leaves
\* the store and both views as they were just before the failure was caught,
\* which is not what they were when the load started if another load or a click
\* ran meanwhile.  A load that fails after the assignment (eventos is truthy but
\* no array, so renderCalendars raises) has stored that value and emptied the
\* grid, and leaves the list as it was.
C1_FailureChangesNothingMore ==
    [][last'.op = "loadFailed" =>
         /\ ~last'.uncaught
         /\ IF last'.cause \in FailureCauses
            THEN /\ allEventos' = allEventos
                 /\ listView' = listView
                 /\ gridView' = gridView
            ELSE /\ last'.data.eventos.kind = "other"
                 /\ allEventos' = last'.data.eventos
                 /\ gridView' = <<>>
                 /\ listView' = listView]_vars

\* a fetch that rejected after a load started later had replaced the store: the
\* store and the views are not those the failed load started from
C1_Witness ==
    /\ last.op = "loadFailed"
    /\ last.cause = "fetch rejects"
    /\ last.entry.superseded
    /\ allEventos # last.entry.snap[1]
    /\ gridView # last.entry.snap[3]

====
